---- MODULE Spec2Model ----
(***************************************************************************)
(* A model of src/dunet.py: the skip selector get_sfs_idxs, the decoder    *)
(* block UnetBlock, the activation recorder SaveFeatures and the lazily    *)
(* constructed DynamicUnet.forward.                                        *)
(*                                                                         *)
(* A tensor is its shape and the set of inputs its values were computed    *)
(* from: [c |-> channels, h |-> height, w |-> width, d |-> input ids].     *)
(* The batch dimension is carried unchanged by every layer and is left     *)
(* out.  Python's 0-based indices are kept as values (sfs_idxs holds       *)
(* 0-based stage indices); a sequence is read at index + 1.                *)
(***************************************************************************)
EXTENDS Integers, Sequences, FiniteSets, TLC

\* ---------------------------------------------------------------- bounds
MaxStages == 3
MaxCalls == 2
MaxConcCalls == 3
NCallers == 2
MaxSelLen == 5
MaxChan == 5
MaxSide == 3

\* ------------------------------------------------------ program constants
InChannels == 3
DefaultClasses == 3
DunetClasses == 1

Callers == 1..NCallers
\* spatial sizes (H, W) of the inputs handed to forward
InputSizes == {<<5, 5>>, <<8, 8>>, <<8, 4>>}
\* channel counts an encoder stage may produce
StageChans == {3, 4}
\* what an encoder stage does to the spatial size: keep it, or halve it as a
\* stride-2 convolution with kernel 3 and padding 1 does (ResNet's stages)
StageOps == {"same", "half"}
NClasses == {DunetClasses, DefaultClasses}
\* trailing sizes offered to the skip selector on its own
SelSizes == {4, 8, 16, 32}

VARIABLES
    encoder,      \* the encoder's children, in order: [op, c] each
    last,         \* self.last
    n_classes,    \* self.n_classes
    features,     \* features[i]: self.sfs[i-1].features
    attrs,        \* the names of the lazily set attributes that exist
    sfs_szs,      \* self.sfs_szs
    sfs_idxs,     \* self.sfs_idxs
    middle_conv,  \* self.middle_conv
    upmodel,      \* self.upmodel
    extra_block,  \* self.extra_block
    final_conv,   \* self.final_conv
    nalloc,       \* the number of UnetBlock objects constructed so far
    frame,        \* frame[c]: the locals of caller c's forward call
    history,      \* the forward calls that returned or raised, in order
    args,         \* the arguments of a call of get_sfs_idxs or UnetBlock
    ret           \* its result

selfVars == <<attrs, sfs_szs, sfs_idxs, middle_conv, upmodel, extra_block, final_conv>>
ctorVars == <<encoder, last, n_classes>>
fnVars == <<args, ret>>
vars == <<encoder, last, n_classes, features, attrs, sfs_szs, sfs_idxs, middle_conv,
          upmodel, extra_block, final_conv, nalloc, frame, history, args, ret>>

\* ------------------------------------------------------------ values
NoTensor == [c |-> 0, h |-> 0, w |-> 0, d |-> {}]
NoConv == [in_c |-> 0, out_c |-> 0]
NoBottleneck == [in_c |-> 0, mid_c |-> 0, out_c |-> 0]
Ok(v) == [err |-> FALSE, val |-> v]
IndexError == [err |-> TRUE, val |-> <<>>]
NoCall == [fn |-> "none"]
ShapeError == [err |-> TRUE, val |-> NoTensor]

Min(a, b) == IF a <= b THEN a ELSE b

Reverse(s) == [i \in 1..Len(s) |-> s[Len(s) + 1 - i]]

\* ------------------------------------------------------ get_sfs_idxs
RECURSIVE WhereFrom(_, _)
WhereFrom(szs, i) ==
    IF i >= Len(szs) THEN <<>>
    ELSE (IF szs[i] # szs[i + 1] THEN <<i - 1>> ELSE <<>>) \o WhereFrom(szs, i + 1)

\* np_where_ne recording the index after each change instead of the one before
RECURSIVE WhereAfter(_, _)
WhereAfter(szs, i) ==
    IF i >= Len(szs) THEN <<>>
    ELSE (IF szs[i] # szs[i + 1] THEN <<i>> ELSE <<>>) \o WhereAfter(szs, i + 1)

np_where_after(szs) == WhereAfter(szs, 1)

\* np.where(np.array(feature_szs[:-1]) != np.array(feature_szs[1:]))[0]
np_where_ne(szs) == WhereFrom(szs, 1)

\* py_range stopping one short: list(range(n - 1))
py_range_short(n) == [i \in 1..(n - 1) |-> i - 1]

\* list(range(n))
py_range(n) == [i \in 1..n |-> i - 1]

\* the prepend of line 23-24
prepend_first(szs, idxs) == IF szs[1] # szs[2] THEN <<0>> \o idxs ELSE idxs

get_sfs_idxs(sfs, lst) ==
    IF lst
    THEN LET feature_szs == [i \in 1..Len(sfs) |-> sfs[i].w]
         IN IF Len(feature_szs) < 2
            THEN IndexError     \* feature_szs[0] or feature_szs[1] does not exist
            ELSE Ok(prepend_first(feature_szs, np_where_ne(feature_szs)))
    ELSE Ok(py_range(Len(sfs)))

\* ------------------------------------------------------------ layers
\* block_out_c rounding the halved sum up instead of down
block_out_c_ceil(up_in_c, x_in_c) == (x_in_c + up_in_c \div 2 + 1) \div 2

\* lines 42-44: (x_in_c + up_in_c // 2) // 2
block_out_c(up_in_c, x_in_c) == (x_in_c + up_in_c \div 2) \div 2

UnetBlock(up_in_c, x_in_c, id) ==
    [id     |-> id,
     upconv |-> [in_c |-> up_in_c, out_c |-> up_in_c \div 2],
     conv1  |-> [in_c |-> x_in_c + up_in_c \div 2, out_c |-> block_out_c(up_in_c, x_in_c)],
     conv2  |-> [in_c |-> block_out_c(up_in_c, x_in_c), out_c |-> block_out_c(up_in_c, x_in_c)],
     bn     |-> block_out_c(up_in_c, x_in_c)]

\* nn.ConvTranspose2d(in_c, out_c, 2, 2): H, W -> 2H, 2W
conv_transpose(cv, t) ==
    IF t.c # cv.in_c THEN ShapeError
    ELSE Ok([c |-> cv.out_c, h |-> 2 * t.h, w |-> 2 * t.w, d |-> t.d])

\* nn.Conv2d with kernel 3, stride 1, padding 1, or kernel 1: H, W kept
conv_same(cv, t) ==
    IF t.c # cv.in_c THEN ShapeError
    ELSE Ok([c |-> cv.out_c, h |-> t.h, w |-> t.w, d |-> t.d])

\* torch.cat([a, b], dim=1)
cat_channels(a, b) ==
    IF a.h # b.h \/ a.w # b.w THEN ShapeError
    ELSE Ok([c |-> a.c + b.c, h |-> a.h, w |-> a.w, d |-> a.d \cup b.d])

\* UnetBlock.forward
BlockForward(blk, up_in, x_in) ==
    LET up_out == conv_transpose(blk.upconv, up_in)
    IN IF up_out.err THEN ShapeError
       ELSE LET cat_x == cat_channels(up_out.val, x_in)
            IN IF cat_x.err THEN ShapeError
               ELSE LET x1 == conv_same(blk.conv1, cat_x.val)
                    IN IF x1.err THEN ShapeError
                       ELSE LET x2 == conv_same(blk.conv2, x1.val)
                            IN IF x2.err \/ x2.val.c # blk.bn THEN ShapeError
                               ELSE x2

\* the two conv_bn_relu stages of the bottleneck
Bottleneck(middle_in_c) ==
    [in_c |-> middle_in_c, mid_c |-> middle_in_c * 2, out_c |-> middle_in_c]

BottleneckForward(m, t) ==
    LET y1 == conv_same([in_c |-> m.in_c, out_c |-> m.mid_c], t)
    IN IF y1.err THEN ShapeError
       ELSE conv_same([in_c |-> m.mid_c, out_c |-> m.out_c], y1.val)

\* one child of the encoder, applied to the running tensor
Resize(op, s) == IF op = "half" THEN (s + 1) \div 2 ELSE s

StageForward(stage, t) ==
    [c |-> stage.c, h |-> Resize(stage.op, t.h), w |-> Resize(stage.op, t.w), d |-> t.d]

\* hook_fn keeping the first activation it saw: if self.features is None
hook_fn_keep_first(feats, i, output) ==
    IF feats[i].d = {} THEN [feats EXCEPT ![i] = output] ELSE feats

\* SaveFeatures.hook_fn of the recorder of child i
hook_fn(feats, i, output) == [feats EXCEPT ![i] = output]

\* ------------------------------------------------------------ forward
IdleFrame ==
    [pc |-> "idle", imsize |-> <<0, 0>>, x |-> NoTensor, x_copy |-> NoTensor,
     upmodel |-> <<>>, it |-> 0, applied |-> <<>>, overlap |-> FALSE]

Active(c) == frame[c].pc # "idle"
NoneActive == \A c \in Callers : ~Active(c)
Started == Len(history) + Cardinality({c \in Callers : Active(c)})
Constructed == Len(history) >= 1 /\ history[1].ok

\* NeedsMiddle with the hasattr guard of line 98 dropped
NeedsMiddleAlways == TRUE

\* hasattr(self, 'middle_conv') and hasattr(self, 'upmodel'), negated
NeedsMiddle == "middle_conv" \notin attrs
NeedsUpmodel == "upmodel" \notin attrs

Outcome(c, ok, at, out, applied, nblocks) ==
    [caller |-> c, ok |-> ok, at |-> at, inp |-> frame[c].imsize, out |-> out,
     applied |-> applied, nblocks |-> nblocks, overlap |-> frame[c].overlap]

\* the call of caller c raises at `at`: its frame is dropped
Raise(c, at, nblocks) ==
    /\ frame' = [frame EXCEPT ![c] = IdleFrame]
    /\ history' = Append(history, Outcome(c, FALSE, at, NoTensor, frame[c].applied, nblocks))

BlocksNow == IF "upmodel" \in attrs THEN Len(upmodel) ELSE 0

Init ==
    /\ encoder \in UNION {[1..n -> [op : StageOps, c : StageChans]] : n \in 0..MaxStages}
    /\ last \in BOOLEAN
    /\ n_classes \in NClasses
    /\ features = [i \in 1..Len(encoder) |-> NoTensor]
    /\ attrs = {}
    /\ sfs_szs = <<>>
    /\ sfs_idxs = <<>>
    /\ middle_conv = NoBottleneck
    /\ upmodel = <<>>
    /\ extra_block = NoConv
    /\ final_conv = NoConv
    /\ nalloc = 0
    /\ frame = [c \in Callers |-> IdleFrame]
    /\ history = <<>>
    /\ args = NoCall
    /\ ret = <<>>

\* forward is entered: imsize = x.size()[-2:]
Start(c, limit, concurrent, inputs) ==
    /\ ~Active(c)
    /\ Started < limit
    /\ NoneActive \/ (concurrent /\ Constructed)
    /\ \E inp \in inputs :
         frame' = [frame EXCEPT ![c] =
                     [IdleFrame EXCEPT !.pc = IF Len(encoder) = 0 THEN "init_middle" ELSE "encoder",
                                       !.imsize = inp,
                                       !.it = 1,
                                       !.x = [c |-> InChannels, h |-> inp[1], w |-> inp[2], d |-> {c}]]]
    /\ UNCHANGED <<ctorVars, features, selfVars, nalloc, history, fnVars>>

\* self.encoder(x): child frame[c].it runs and its recorder's hook fires
EncoderStage(c) ==
    /\ frame[c].pc = "encoder"
    /\ LET i == frame[c].it
           y == StageForward(encoder[i], frame[c].x)
       IN /\ features' = hook_fn(features, i, y)
          /\ frame' = [d \in Callers |->
                         IF d = c
                         THEN [frame[c] EXCEPT !.x = y,
                                               !.it = IF i = Len(encoder) THEN 1 ELSE i + 1,
                                               !.pc = IF i = Len(encoder) THEN "init_middle" ELSE "encoder",
                                               !.applied = Append(@, "encoder")]
                         ELSE [frame[d] EXCEPT !.overlap = @ \/ Active(d)]]
    /\ UNCHANGED <<ctorVars, selfVars, nalloc, history, fnVars>>

\* lines 97-104: sfs_szs, sfs_idxs and middle_conv, only once
InitMiddle(c) ==
    /\ frame[c].pc = "init_middle"
    /\ IF NeedsMiddle
       THEN LET szs == [i \in 1..Len(features) |-> [c |-> features[i].c, h |-> features[i].h, w |-> features[i].w]]
                idxs == get_sfs_idxs(features, last)
            IN /\ sfs_szs' = szs
               /\ IF idxs.err
                  THEN /\ attrs' = attrs \cup {"sfs_szs"}
                       /\ Raise(c, "get_sfs_idxs", BlocksNow)
                       /\ UNCHANGED <<sfs_idxs, middle_conv>>
                  ELSE /\ sfs_idxs' = idxs.val
                       /\ IF Len(szs) = 0
                          THEN /\ attrs' = attrs \cup {"sfs_szs", "sfs_idxs"}
                               /\ Raise(c, "middle_in_c", BlocksNow)
                               /\ UNCHANGED middle_conv
                          ELSE /\ attrs' = attrs \cup {"sfs_szs", "sfs_idxs", "middle_conv"}
                               /\ middle_conv' = Bottleneck(szs[Len(szs)].c)
                               /\ frame' = [frame EXCEPT ![c].pc = "middle"]
                               /\ UNCHANGED history
       ELSE /\ frame' = [frame EXCEPT ![c].pc = "middle"]
            /\ UNCHANGED <<attrs, sfs_szs, sfs_idxs, middle_conv, history>>
    /\ UNCHANGED <<ctorVars, features, upmodel, extra_block, final_conv, nalloc, fnVars>>

\* lines 106-112: x = self.middle_conv(x); x_copy and the empty block list
MiddleConv(c) ==
    /\ frame[c].pc = "middle"
    /\ LET y == BottleneckForward(middle_conv, frame[c].x)
       IN IF y.err
          THEN Raise(c, "middle_conv", BlocksNow)
          ELSE /\ frame' = [frame EXCEPT ![c] =
                              [@ EXCEPT !.x = y.val,
                                        !.applied = Append(@, "middle_conv"),
                                        !.it = 1,
                                        !.pc = IF NeedsUpmodel THEN "build" ELSE "run_up",
                                        !.x_copy = IF NeedsUpmodel THEN y.val ELSE NoTensor]]
               /\ UNCHANGED history
    /\ UNCHANGED <<ctorVars, features, selfVars, nalloc, fnVars>>

\* BuildBlock assigning self.final_conv inside the loop too, as it does self.upmodel
BuildBlockEager(c) ==
    /\ frame[c].pc = "build"
    /\ frame[c].it <= Len(sfs_idxs)
    /\ LET idx == Reverse(sfs_idxs)[frame[c].it]
           up_in_c == frame[c].x_copy.c
           x_in_c == sfs_szs[idx + 1].c
           unet_block == UnetBlock(up_in_c, x_in_c, nalloc + 1)
           out == BlockForward(unet_block, frame[c].x_copy, features[idx + 1])
       IN /\ nalloc' = nalloc + 1
          /\ IF out.err
             THEN /\ Raise(c, "build_block", BlocksNow)
                  /\ UNCHANGED <<attrs, upmodel, final_conv>>
             ELSE /\ upmodel' = Append(frame[c].upmodel, unet_block)
                  /\ final_conv' = [in_c |-> unet_block.conv2.out_c, out_c |-> n_classes]
                  /\ attrs' = attrs \cup {"upmodel", "final_conv"}
                  /\ frame' = [frame EXCEPT ![c] =
                                  [@ EXCEPT !.upmodel = Append(@, unet_block),
                                            !.x_copy = out.val,
                                            !.it = @ + 1]]
                  /\ UNCHANGED history
    /\ UNCHANGED <<ctorVars, features, sfs_szs, sfs_idxs, middle_conv, extra_block, fnVars>>

\* lines 113-118: one iteration of the loop over self.sfs_idxs[::-1]
BuildBlock(c) ==
    /\ frame[c].pc = "build"
    /\ frame[c].it <= Len(sfs_idxs)
    /\ LET idx == Reverse(sfs_idxs)[frame[c].it]
           up_in_c == frame[c].x_copy.c
           x_in_c == sfs_szs[idx + 1].c
           unet_block == UnetBlock(up_in_c, x_in_c, nalloc + 1)
           out == BlockForward(unet_block, frame[c].x_copy, features[idx + 1])
       IN /\ nalloc' = nalloc + 1
          /\ IF out.err
             THEN /\ Raise(c, "build_block", BlocksNow)
                  /\ UNCHANGED <<attrs, upmodel>>
             ELSE /\ upmodel' = Append(frame[c].upmodel, unet_block)
                  /\ attrs' = attrs \cup {"upmodel"}
                  /\ frame' = [frame EXCEPT ![c] =
                                  [@ EXCEPT !.upmodel = Append(@, unet_block),
                                            !.x_copy = out.val,
                                            !.it = @ + 1]]
                  /\ UNCHANGED history
    /\ UNCHANGED <<ctorVars, features, sfs_szs, sfs_idxs, middle_conv, extra_block, final_conv, fnVars>>

\* needs_extra comparing with the deepest recorded shape, self.sfs_szs[-1][-2:]
needs_extra_deepest(imsize, szs) == imsize # <<szs[Len(szs)].h, szs[Len(szs)].w>>

\* line 120: imsize != self.sfs_szs[0][-2:]
needs_extra(imsize, szs) == imsize # <<szs[1].h, szs[1].w>>

\* lines 120-125: the extra block and the final convolution
BuildFinish(c) ==
    /\ frame[c].pc = "build"
    /\ frame[c].it > Len(sfs_idxs)
    /\ IF "upmodel" \notin attrs
       THEN \* self.upmodel[-1]: the attribute was never assigned
            /\ Raise(c, "upmodel[-1]", BlocksNow)
            /\ UNCHANGED <<attrs, extra_block, final_conv>>
       ELSE LET out_channels == upmodel[Len(upmodel)].conv2.out_c
                extra == needs_extra(frame[c].imsize, sfs_szs)
            IN /\ extra_block' = IF extra THEN [in_c |-> out_channels, out_c |-> out_channels]
                                          ELSE extra_block
               /\ final_conv' = [in_c |-> out_channels, out_c |-> n_classes]
               /\ attrs' = attrs \cup (IF extra THEN {"extra_block"} ELSE {}) \cup {"final_conv"}
               /\ frame' = [frame EXCEPT ![c] = [@ EXCEPT !.pc = "run_up", !.it = 1]]
               /\ UNCHANGED history
    /\ UNCHANGED <<ctorVars, features, sfs_szs, sfs_idxs, middle_conv, upmodel, nalloc, fnVars>>

\* lines 128-129: one iteration of zip(self.upmodel, self.sfs_idxs[::-1])
RunBlock(c) ==
    /\ frame[c].pc = "run_up"
    /\ frame[c].it <= Min(Len(upmodel), Len(sfs_idxs))
    /\ LET idx == Reverse(sfs_idxs)[frame[c].it]
           out == BlockForward(upmodel[frame[c].it], frame[c].x, features[idx + 1])
       IN IF out.err
          THEN Raise(c, "run_block", BlocksNow)
          ELSE /\ frame' = [frame EXCEPT ![c] =
                              [@ EXCEPT !.x = out.val,
                                        !.it = @ + 1,
                                        !.applied = Append(@, "block")]]
               /\ UNCHANGED history
    /\ UNCHANGED <<ctorVars, features, selfVars, nalloc, fnVars>>

\* lines 130-135: the extra block if there is one, the final convolution, sigmoid
Output(c) ==
    /\ frame[c].pc = "run_up"
    /\ frame[c].it > Min(Len(upmodel), Len(sfs_idxs))
    /\ LET hasExtra == "extra_block" \in attrs
           x1 == IF hasExtra THEN conv_transpose(extra_block, frame[c].x) ELSE Ok(frame[c].x)
           log1 == IF hasExtra THEN Append(frame[c].applied, "extra_block") ELSE frame[c].applied
       IN IF x1.err
          THEN Raise(c, "extra_block", BlocksNow)
          ELSE IF "final_conv" \notin attrs
               THEN Raise(c, "final_conv", BlocksNow)
               ELSE LET out == conv_same(final_conv, x1.val)
                    IN IF out.err
                       THEN Raise(c, "final_conv", BlocksNow)
                       ELSE /\ frame' = [frame EXCEPT ![c] = IdleFrame]
                            /\ history' = Append(history,
                                             Outcome(c, TRUE, "return", out.val,
                                                     Append(log1, "final_conv"), BlocksNow))
    /\ UNCHANGED <<ctorVars, features, selfVars, nalloc, fnVars>>

Forward(c, limit, concurrent, inputs) ==
    \/ Start(c, limit, concurrent, inputs)
    \/ EncoderStage(c)
    \/ InitMiddle(c)
    \/ MiddleConv(c)
    \/ BuildBlock(c)
    \/ BuildFinish(c)
    \/ RunBlock(c)
    \/ Output(c)

\* forward calls in sequence on one instance, all made by caller 1
Next == Forward(1, MaxCalls, FALSE, InputSizes)

Spec == Init /\ [][Next]_vars

\* the first call runs alone; once it has returned, several callers call forward
\* on the same instance and their steps interleave
\* the encoders and input sizes of the concurrent runs: ResNet's shape (the first
\* child halves the input, so an extra block is built) and one whose first two
\* recorded sizes differ
ConcEncoders ==
    {<<[op |-> "half", c |-> 3], [op |-> "same", c |-> 4], [op |-> "half", c |-> 4]>>,
     <<[op |-> "same", c |-> 3], [op |-> "half", c |-> 4]>>}

ConcInputs == {<<8, 8>>, <<8, 4>>}

InitConc == Init /\ n_classes = DunetClasses /\ last /\ encoder \in ConcEncoders

NextConc == \E c \in Callers : Forward(c, MaxConcCalls, TRUE, ConcInputs)

SpecConc == InitConc /\ [][NextConc]_vars

\* ------------------------------------------- get_sfs_idxs called on its own
\* an instance nothing has been called on
Blank ==
    /\ encoder = <<>>
    /\ last = TRUE
    /\ n_classes = DefaultClasses
    /\ features = <<>>
    /\ attrs = {}
    /\ sfs_szs = <<>>
    /\ sfs_idxs = <<>>
    /\ middle_conv = NoBottleneck
    /\ upmodel = <<>>
    /\ extra_block = NoConv
    /\ final_conv = NoConv
    /\ nalloc = 0
    /\ frame = [c \in Callers |-> IdleFrame]
    /\ history = <<>>

modelVars == <<encoder, last, n_classes, features, attrs, sfs_szs, sfs_idxs, middle_conv,
               upmodel, extra_block, final_conv, nalloc, frame, history>>

\* a recorder whose features has trailing size w
Recorded(w) == [c |-> 1, h |-> w, w |-> w, d |-> {}]

InitSel ==
    /\ Blank
    /\ \E n \in 0..MaxSelLen : \E szs \in [1..n -> SelSizes] : \E l \in BOOLEAN :
         args = [fn |-> "get_sfs_idxs", sfs |-> [i \in 1..n |-> Recorded(szs[i])], last |-> l]
    /\ ret = <<>>

CallGetSfsIdxs ==
    /\ args.fn = "get_sfs_idxs"
    /\ ret = <<>>
    /\ ret' = <<get_sfs_idxs(args.sfs, args.last)>>
    /\ UNCHANGED <<modelVars, args>>

SpecSel == InitSel /\ [][CallGetSfsIdxs]_vars

\* --------------------------------------------- a UnetBlock built and applied
BlockChans == ((1..MaxChan) \X (1..MaxChan)) \cup {<<512, 256>>}

InitBlock ==
    /\ Blank
    /\ \E cc \in BlockChans : \E s \in 1..MaxSide : \E xs \in 1..(2 * MaxSide) :
         args = [fn |-> "UnetBlock", up_in_c |-> cc[1], x_in_c |-> cc[2],
                 up_in |-> [c |-> cc[1], h |-> s, w |-> s, d |-> {1}],
                 x_in |-> [c |-> cc[2], h |-> xs, w |-> xs, d |-> {1}]]
    /\ ret = <<>>

\* UnetBlock.__init__
BlockInit ==
    /\ args.fn = "UnetBlock"
    /\ ret = <<>>
    /\ ret' = <<UnetBlock(args.up_in_c, args.x_in_c, 1)>>
    /\ UNCHANGED <<modelVars, args>>

\* UnetBlock.forward
BlockCall ==
    /\ args.fn = "UnetBlock"
    /\ Len(ret) = 1
    /\ ret' = <<ret[1], BlockForward(ret[1], args.up_in, args.x_in)>>
    /\ UNCHANGED <<modelVars, args>>

NextBlock == BlockInit \/ BlockCall

SpecBlock == InitBlock /\ [][NextBlock]_vars


\* ================================================================ claims
\* the spatial sizes the recorders hold after an encoder pass on an input of size inp
RECURSIVE SizesFrom(_, _)
SizesFrom(i, sz) ==
    IF i > Len(encoder) THEN <<>>
    ELSE LET out == <<Resize(encoder[i].op, sz[1]), Resize(encoder[i].op, sz[2])>>
         IN <<out>> \o SizesFrom(i + 1, out)

RecordedSizes(inp) == SizesFrom(1, inp)

Repeat(e, n) == [i \in 1..n |-> e]

StrictlyAscending(s) == \A i \in 1..(Len(s) - 1) : s[i] < s[i + 1]

Elems(s) == {s[i] : i \in 1..Len(s)}

\* the 0-based indices immediately before a change of trailing size
ChangePoints(sfs) == {i \in 0..(Len(sfs) - 2) : sfs[i + 1].w # sfs[i + 2].w}

SizesOf(sfs) == [i \in 1..Len(sfs) |-> sfs[i].w]

FirstCallDone == Len(history) >= 1

\* ---------------------------------------------------------------- C1
HalvingEncoder(inp) ==
    LET szs == RecordedSizes(inp)
    IN /\ Len(encoder) >= 2
       /\ szs[1] = inp
       /\ \A i \in 1..(Len(szs) - 1) :
            szs[i][1] = 2 * szs[i + 1][1] /\ szs[i][2] = 2 * szs[i + 1][2]

\* C1: with last = true, an encoder of N >= 2 stages whose recorded sizes halve at
\* every stage, the first of them being the input's size, makes the first forward
\* call return a tensor of n_classes channels and of the input's spatial size.
C1_HalvingEncoderKeepsSize ==
    (FirstCallDone /\ last /\ HalvingEncoder(history[1].inp))
        => /\ history[1].ok
           /\ history[1].out.c = n_classes
           /\ <<history[1].out.h, history[1].out.w>> = history[1].inp

\* ---------------------------------------------------------------- C2
SelfFields == <<attrs, sfs_szs, sfs_idxs, middle_conv, upmodel, extra_block, final_conv, nalloc>>

BeforeConstruction ==
    /\ history = <<>>
    /\ \A c \in Callers : frame[c].pc \in {"idle", "encoder", "init_middle"}

\* C2: no decoder field exists before the first forward call reaches its
\* construction step, and once a first call has returned, no step of any later
\* call changes the skip indices, the recorded shapes, the bottleneck, the block
\* list (no block is constructed), the extra block or the final convolution.
C2_ConstructedOnce ==
    /\ [](BeforeConstruction => attrs = {} /\ nalloc = 0)
    /\ [][Constructed => SelfFields' = SelfFields]_vars

C2_Witness ==
    /\ Constructed
    /\ Len(history) = 2
    /\ history[2].inp # history[1].inp
    /\ history[2].caller = 1

\* ---------------------------------------------------------------- C3
Returned == ret # <<>>

\* C3: with last = true and the first two of N >= 2 sizes equal, get_sfs_idxs
\* returns the ascending list of the indices immediately before a size change,
\* each once; [32, 32, 16, 16, 8] gives [1, 3].
C3_LastBeforeEachChange ==
    (args.fn = "get_sfs_idxs" /\ Returned /\ args.last /\ Len(args.sfs) >= 2
        /\ args.sfs[1].w = args.sfs[2].w)
        => /\ ~ret[1].err
           /\ StrictlyAscending(ret[1].val)
           /\ Elems(ret[1].val) = ChangePoints(args.sfs)
           /\ (SizesOf(args.sfs) = <<32, 32, 16, 16, 8>> => ret[1].val = <<1, 3>>)

C3_Witness ==
    /\ args.fn = "get_sfs_idxs" /\ Returned /\ args.last
    /\ SizesOf(args.sfs) = <<32, 32, 16, 16, 8>>
    /\ ret[1].val = <<1, 3>>

\* ---------------------------------------------------------------- C4
\* C4: with last = true and the first two sizes different, get_sfs_idxs returns a
\* strictly ascending list that starts with 0 and holds every index immediately
\* before a size change once; [16, 8, 8, 4] gives [0, 2].
C4_PrependKeepsAscending ==
    (args.fn = "get_sfs_idxs" /\ Returned /\ args.last /\ Len(args.sfs) >= 2
        /\ args.sfs[1].w # args.sfs[2].w)
        => /\ ~ret[1].err
           /\ StrictlyAscending(ret[1].val)
           /\ ret[1].val[1] = 0
           /\ Elems(ret[1].val) = ChangePoints(args.sfs)
           /\ (SizesOf(args.sfs) = <<16, 8, 8, 4>> => ret[1].val = <<0, 2>>)

\* ---------------------------------------------------------------- C5
\* C5: with last = false get_sfs_idxs returns 0, 1, ..., N-1 for any N recorded
\* stages, whatever their sizes, N = 0 and N = 1 included.
C5_AllIndices ==
    (args.fn = "get_sfs_idxs" /\ Returned /\ ~args.last)
        => /\ ~ret[1].err
           /\ Len(ret[1].val) = Len(args.sfs)
           /\ \A j \in 1..Len(args.sfs) : ret[1].val[j] = j - 1

C5_Witness ==
    /\ args.fn = "get_sfs_idxs" /\ Returned /\ ~args.last
    /\ Len(args.sfs) = 1
    /\ ret[1].val = <<0>>

\* ---------------------------------------------------------------- C6
\* C6: after the first successful forward pass, under every interleaving of
\* forward calls, a call that returns has computed its output from its own
\* input alone (its blocks consumed the activations its own encoder pass left).
C6_EveryInterleavingOwnSkips ==
    Constructed =>
        \A k \in 1..Len(history) :
            history[k].ok => history[k].out.d = {history[k].caller}

\* C6 amended: a call that returns, and during which no other call's encoder
\* pass ran, has computed its output from its own input alone.
C6_NoOverlapOwnSkips ==
    Constructed =>
        \A k \in 1..Len(history) :
            (history[k].ok /\ ~history[k].overlap) => history[k].out.d = {history[k].caller}

C6_Witness ==
    /\ Constructed
    /\ Len(history) >= 2
    /\ history[2].ok /\ ~history[2].overlap
    /\ history[2].caller # history[1].caller
    /\ \E c \in Callers : Active(c) /\ frame[c].pc = "encoder"

\* ---------------------------------------------------------------- C7
FloorHalf(n, q) == 2 * q <= n /\ n <= 2 * q + 1

ConstantResolution(inp) ==
    LET szs == RecordedSizes(inp)
    IN Len(encoder) >= 2 /\ \A i \in 1..Len(szs) : szs[i] = szs[1]

\* C8: for a constant-resolution encoder of N >= 2 stages with last = true the
\* skip selection is empty and the first forward call completes with no decoder
\* block, the topology being the bottleneck, the optional extra block and the
\* final convolution.
C8_ConstantResolutionCompletes ==
    (FirstCallDone /\ last /\ ConstantResolution(history[1].inp))
        => /\ sfs_idxs = <<>>
           /\ history[1].ok
           /\ history[1].nblocks = 0
           /\ {"middle_conv", "final_conv"} \subseteq attrs

\* ---------------------------------------------------------------- C9
ConstructionPoints == {"get_sfs_idxs", "middle_in_c", "middle_conv", "build_block", "upmodel[-1]"}

\* C9: if the first forward call fails at any point of the one-time
\* construction, every later call fails and construction is never completed.
C9_FailedConstructionIsFinal ==
    (FirstCallDone /\ ~history[1].ok /\ history[1].at \in ConstructionPoints)
        => /\ \A k \in 2..Len(history) : ~history[k].ok
           /\ "final_conv" \notin attrs

\* C9 amended: if the first forward call fails after self.upmodel was assigned
\* (and so before self.final_conv is), every later call fails and
\* self.final_conv is never assigned.
C9_FailedAfterUpmodelIsFinal ==
    (FirstCallDone /\ ~history[1].ok /\ history[1].nblocks >= 1)
        => /\ \A k \in 2..Len(history) : ~history[k].ok
           /\ "final_conv" \notin attrs

C9_Witness ==
    /\ Len(history) = 2
    /\ ~history[1].ok /\ history[1].at = "build_block" /\ history[1].nblocks >= 1
    /\ history[2].at = "final_conv"
    /\ history[2].inp # history[1].inp

\* ---------------------------------------------------------------- C10
ExpectedLog ==
    Repeat("encoder", Len(encoder)) \o <<"middle_conv">> \o Repeat("block", Len(upmodel))
        \o (IF "extra_block" \in attrs THEN <<"extra_block">> ELSE <<>>) \o <<"final_conv">>

\* C10: after a successful first call there is an extra block exactly if that
\* call's input size differed from the size of the stage-0 recorded activation;
\* it has as many output as input channels, those of the last decoder block, and
\* a call that returns has applied it once, after the last decoder block and
\* before the final convolution.
C10_ExtraBlock ==
    Constructed =>
        /\ ("extra_block" \in attrs) <=> (history[1].inp # RecordedSizes(history[1].inp)[1])
        /\ ("extra_block" \in attrs) =>
              /\ extra_block.in_c = upmodel[Len(upmodel)].conv2.out_c
              /\ extra_block.out_c = extra_block.in_c
              /\ final_conv.in_c = extra_block.out_c
        /\ \A k \in 1..Len(history) :
              history[k].ok =>
                  /\ history[k].applied = ExpectedLog
                  /\ history[k].out.c = n_classes

C10_Witness ==
    /\ Constructed
    /\ "extra_block" \in attrs
    /\ Len(history) = 2
    /\ history[2].ok
    /\ history[2].inp # history[1].inp

====
